---- MODULE Spec2Model ----
(***************************************************************************)
(* Model of the hierarchical task views of the Checkvist MCP server         *)
(* (summary, subtree, stats, top-level listing, paginated).                 *)
(*                                                                          *)
(* A checklist is the flat sequence of task records the remote service      *)
(* returns.  Every view handler fetches it, builds an id -> record map and  *)
(* renders text.  Rendered text is modelled line by line: a line is a       *)
(* record holding what the line is (task line or elision marker), the       *)
(* indentation depth, the task id printed on it, the status glyph and the   *)
(* layout of the line.  Free text (content, due, tags, notes) is not        *)
(* modelled.                                                                *)
(***************************************************************************)
EXTENDS Integers, Sequences, FiniteSets, TLC

VARIABLES tasks, call, result,
          cc,    \* the #cc automation: the tags and comments on the Checkvist
                 \* server and the position of the running script
          auth   \* the token cache of the server process and its calls in flight

vars == <<tasks, call, result, cc, auth>>

(***************************************************************************)
(* Bounds of the model                                                      *)
(***************************************************************************)
\* largest number of task positions in a checklist
MaxTasks == 3
\* largest number of task positions in a deep checklist
MaxDeepTasks == 4
\* largest number of tasks of a deep checklist that are not plain open tasks
MaxAnomalies == 1
\* largest number of positions whose record is missing from the response
MaxMissing == 1
\* largest explicit max_depth argument below the "all levels" value
MaxDepthArg == 1
\* number of nested getDepth calls the call stack holds before the engine
\* throws a RangeError; more than the depth of any acyclic checklist explored
StackLimit == 8
\* largest total task count for which the recommendation is computed
MaxTotal == 201
\* number of tasks in the first checklist the automation looks at
MaxCcTasks == 2
\* number of comments a task can have before the automation is stopped
MaxComments == 2
\* number of API calls of the server process that can be under way at once
MaxCalls == 2
\* the clock of the server process runs from hour 0 to this hour
MaxTime == 25
\* hours a login response can take
MaxWait == 1

(***************************************************************************)
(* Program constants                                                        *)
(***************************************************************************)
StatusOpen == 0
StatusClosed == 1
StatusInvalidated == 2
SummaryDefaultDepth == 99
TreeDefaultDepth == 3
PaginatedDefaultDepth == 2
pageSize == 1
SmallLimit == 50
MediumLimit == 200
AllLevels == 99
\* tokenExpiry = Date.now() + 86400000: one day, in hours
TokenLifetime == 24
\* Date.now() < tokenExpiry - 3600000: one hour
ExpiryBuffer == 1

(***************************************************************************)
(* Checklists the remote service can return                                 *)
(***************************************************************************)
\* the id of the task at a response position: the response is not in id order
IdAt(pos) == IF pos % 2 = 1 THEN pos + 1 ELSE pos - 1

\* the ascending sequence of the elements of a finite set of integers
RECURSIVE SortedSeq(_)
SortedSeq(S) ==
  IF S = {} THEN <<>>
  ELSE LET m == CHOOSE x \in S : \A y \in S : x <= y
       IN <<m>> \o SortedSeq(S \ {m})

\* the ids of a sequence of positions
RECURSIVE IdsOf(_)
IdsOf(ps) == IF ps = <<>> THEN <<>> ELSE <<IdAt(Head(ps))>> \o IdsOf(Tail(ps))

\* the record of position i in a forest given by parent positions and statuses
RecordAt(i, par, st) ==
  [id |-> IdAt(i),
   parent_id |-> IF par[i] = 0 THEN 0 ELSE IdAt(par[i]),
   status |-> st[i],
   tasks |-> IdsOf(SortedSeq({j \in DOMAIN par : par[j] = i}))]

RECURSIVE RecordsOf(_, _, _)
RecordsOf(ps, par, st) ==
  IF ps = <<>> THEN <<>>
  ELSE <<RecordAt(Head(ps), par, st)>> \o RecordsOf(Tail(ps), par, st)

\* the response for a forest: the records of the positions that are not gone;
\* the children lists still name the ids of the positions that are gone
Response(n, par, st, gone) ==
  RecordsOf(SortedSeq((1..n) \ gone), par, st)

\* forests of n positions: a parent is an earlier position, 0 is top level
Forests(n) == { p \in [1..n -> 0..n] : \A i \in 1..n : p[i] < i }

Checklists ==
  UNION { { Response(n, par, st, gone) :
              par \in Forests(n),
              st \in [1..n -> {StatusOpen, StatusClosed, StatusInvalidated}],
              gone \in { g \in SUBSET (1..n) : Cardinality(g) <= MaxMissing } }
          : n \in 0..MaxTasks }

\* Deep checklists: more positions, so that a task can sit three levels below
\* its top-level task; all tasks are open and present but for a few
\* positions that are closed, invalidated or gone from the response.
DeepChecklists ==
  UNION { { Response(n, par,
                     [i \in 1..n |-> IF i \in DOMAIN odd /\ odd[i] = "closed" THEN StatusClosed
                                      ELSE IF i \in DOMAIN odd /\ odd[i] = "invalidated"
                                           THEN StatusInvalidated
                                           ELSE StatusOpen],
                     { i \in DOMAIN odd : odd[i] = "gone" }) :
              par \in Forests(n),
              odd \in UNION { [A -> {"closed", "invalidated", "gone"}] :
                               A \in { B \in SUBSET (1..n) : Cardinality(B) <= MaxAnomalies } } }
          : n \in 0..MaxDeepTasks }

\* the positions on the way from a position up to its top-level position
RECURSIVE AncestorsOrSelf(_, _)
AncestorsOrSelf(par, j) ==
  IF par[j] = 0 THEN {j} ELSE {j} \cup AncestorsOrSelf(par, par[j])

\* a response in which the children list of one record also names another id
WithChild(resp, fromId, toId) ==
  [i \in DOMAIN resp |->
     IF resp[i].id = fromId
     THEN [resp[i] EXCEPT !.tasks = Append(resp[i].tasks, toId)]
     ELSE resp[i]]

\* Malformed checklists: a forest of open tasks in which one children list
\* names the task itself or one of its ancestors, so the children references
\* form a cycle
CyclicChecklists ==
  UNION { { WithChild(Response(n, par, [i \in 1..n |-> StatusOpen], {}), IdAt(j), IdAt(a)) :
              par \in Forests(n), j \in 1..n, a \in 1..n }
          \cap
          UNION { { WithChild(Response(n, par, [i \in 1..n |-> StatusOpen], {}), IdAt(j), IdAt(a)) :
                      a \in AncestorsOrSelf(par, j) } : par \in Forests(n), j \in 1..n }
          : n \in 1..MaxTasks }

(***************************************************************************)
(* Shared helpers                                                           *)
(***************************************************************************)
NoTask == [id |-> 0, parent_id |-> 0, status |-> 0, tasks |-> <<>>]

\* taskMap.get(id) after tasks.forEach(task => taskMap.set(task.id, task)):
\* the last record carrying the id, NoTask (undefined) when there is none
taskMapGet(ts, id) ==
  LET hits == {i \in DOMAIN ts : ts[i].id = id}
  IN IF hits = {} THEN NoTask
     ELSE ts[CHOOSE i \in hits : \A j \in hits : j <= i]

taskMapHas(ts, id) == \E i \in DOMAIN ts : ts[i].id = id

\* tasks.filter(task => task.parent_id === 0)
RECURSIVE topLevelTasks(_)
topLevelTasks(ts) ==
  IF ts = <<>> THEN <<>>
  ELSE (IF Head(ts).parent_id = 0 THEN <<Head(ts)>> ELSE <<>>) \o topLevelTasks(Tail(ts))

\* args.k === true
ArgTrue(args, k) == k \in DOMAIN args /\ args[k] = TRUE
\* args.k === false
ArgFalse(args, k) == k \in DOMAIN args /\ args[k] = FALSE
\* typeof args.max_depth === 'number' ? args.max_depth : dflt
DepthArg(args, dflt) == IF "max_depth" \in DOMAIN args THEN args.max_depth ELSE dflt

TaskLine(t, depth, glyph, layout) ==
  [kind |-> "task", id |-> t.id, depth |-> depth, glyph |-> glyph, layout |-> layout, n |-> 0]
MarkerLine(t, depth, layout) ==
  [kind |-> "marker", id |-> 0, depth |-> depth + 1, glyph |-> "", layout |-> layout,
   n |-> Len(t.tasks)]

\* status === 1 ? check : status === 2 ? cross : blank
Glyph3(status) ==
  IF status = StatusClosed THEN "check" ELSE IF status = StatusInvalidated THEN "cross" ELSE "blank"
\* status === 1 ? check : blank
Glyph2(status) == IF status = StatusClosed THEN "check" ELSE "blank"

NoHeader == [kind |-> "none"]
NoCall == [tool |-> "none", args |-> <<>>]
NoFooter == [kind |-> "none", next |-> 0, depthNote |-> FALSE]
NoResult == [isError |-> FALSE, error |-> "", header |-> NoHeader, lines |-> <<>>, footer |-> NoFooter]
\* the handler's catch: the reply is only "Error: " and the message
\* the automation script is not part of the server process
NoRun == [pc |-> "off"]
\* the token cache is left aside: every call finds a valid token
NoAuth == [pc |-> "off"]

\* a slip in the catch: the message is returned as ordinary content
Failure_AsContent(kind) ==
  [isError |-> FALSE, error |-> kind, text |-> <<kind>>,
   header |-> NoHeader, lines |-> <<>>, footer |-> NoFooter]
\* the catch of the request handler: text is `Error: ${errorMessage}`; kind
\* stands for the message of the error that was thrown
Failure(kind) ==
  [isError |-> TRUE, error |-> kind, text |-> <<"Error: ", kind>>,
   header |-> NoHeader, lines |-> <<>>, footer |-> NoFooter]

(***************************************************************************)
(* checkvist_get_tasks_summary                                              *)
(***************************************************************************)
\* the render policy resolved from the arguments
\* a slip in the policy: preview is only the default, an explicit max_depth wins
SummaryPolicy_PreviewAsDefault(args) ==
  LET isPreview == ArgTrue(args, "preview")
  IN [isPreview |-> isPreview,
      maxDepth |-> DepthArg(args, IF isPreview THEN 1 ELSE SummaryDefaultDepth),
      includeClosed |-> ArgTrue(args, "include_closed"),
      compactMode |-> IF isPreview THEN TRUE ELSE ArgTrue(args, "compact")]
SummaryPolicy(args) ==
  LET isPreview == ArgTrue(args, "preview")
  IN [isPreview |-> isPreview,
      maxDepth |-> IF isPreview THEN 1 ELSE DepthArg(args, SummaryDefaultDepth),
      includeClosed |-> ArgTrue(args, "include_closed"),
      compactMode |-> IF isPreview THEN TRUE ELSE ArgTrue(args, "compact")]

\* a slip in the status code: invalidated tasks are skipped, closed ones kept
SummarySkipClosed_WrongStatus(p, task) == ~p.includeClosed /\ task.status = StatusInvalidated
\* if (!includeClosed && task.status === 1) return ''
SummarySkipClosed(p, task) == ~p.includeClosed /\ task.status = StatusClosed

\* a slip in the depth test: the last level within max_depth is not expanded
SummaryExpands_OffByOne(p, task, depth) == depth + 1 < p.maxDepth /\ Len(task.tasks) > 0
\* if (depth < maxDepth && task.tasks && task.tasks.length > 0)
SummaryExpands(p, task, depth) == depth < p.maxDepth /\ Len(task.tasks) > 0

RECURSIVE SummaryFormatTask(_, _, _, _)
RECURSIVE SummaryFormatEach(_, _, _, _)

\* a slip in the walk: the list is taken from its end
SummaryFormatEach_Reversed(ts, p, ids, depth) ==
  IF ids = <<>> THEN <<>>
  ELSE SummaryFormatEach(ts, p, Tail(ids), depth) \o SummaryFormatTask(ts, p, Head(ids), depth)
\* task.tasks.forEach(subtaskId => result += formatTask(subtaskId, depth + 1))
SummaryFormatEach(ts, p, ids, depth) ==
  IF ids = <<>> THEN <<>>
  ELSE SummaryFormatTask(ts, p, Head(ids), depth) \o SummaryFormatEach(ts, p, Tail(ids), depth)

SummaryFormatTask(ts, p, taskId, depth) ==
  LET task == taskMapGet(ts, taskId) IN
  IF ~taskMapHas(ts, taskId) THEN <<>>
  ELSE IF SummarySkipClosed(p, task) THEN <<>>
  ELSE IF p.compactMode
    THEN <<TaskLine(task, depth, Glyph3(task.status), "compact")>>
         \o (IF SummaryExpands(p, task, depth)
              THEN SummaryFormatEach(ts, p, task.tasks, depth + 1)
              ELSE <<>>)
    ELSE <<TaskLine(task, depth, Glyph2(task.status), "full")>>
         \o (IF SummaryExpands(p, task, depth)
              THEN SummaryFormatEach(ts, p, task.tasks, depth + 1)
              ELSE IF Len(task.tasks) > 0
                   THEN <<MarkerLine(task, depth, "full")>>
                   ELSE <<>>)

RECURSIVE IdSeq(_)
IdSeq(ts) == IF ts = <<>> THEN <<>> ELSE <<Head(ts).id>> \o IdSeq(Tail(ts))

\* a slip in the handler: a response without tasks is taken for a failure
SummaryResult_EmptyFails(ts, args) ==
  LET p == SummaryPolicy(args)
      top == topLevelTasks(ts)
  IN IF ts = <<>> THEN Failure("No tasks") ELSE
     [isError |-> FALSE, error |-> "",
      header |-> [kind |-> "summary", topLevel |-> Len(top), total |-> Len(ts),
                  mode |-> IF p.isPreview THEN "preview"
                           ELSE IF p.compactMode THEN "compact" ELSE "full",
                  maxDepth |-> p.maxDepth, includeClosed |-> p.includeClosed],
      lines |-> SummaryFormatEach(ts, p, IdSeq(top), 0),
      footer |-> [kind |-> IF p.isPreview THEN "tip-preview"
                           ELSE IF p.compactMode THEN "tip-compact" ELSE "none",
                  next |-> 0, depthNote |-> FALSE]]
SummaryResult(ts, args) ==
  LET p == SummaryPolicy(args)
      top == topLevelTasks(ts)
  IN [isError |-> FALSE, error |-> "",
      header |-> [kind |-> "summary", topLevel |-> Len(top), total |-> Len(ts),
                  mode |-> IF p.isPreview THEN "preview"
                           ELSE IF p.compactMode THEN "compact" ELSE "full",
                  maxDepth |-> p.maxDepth, includeClosed |-> p.includeClosed],
      lines |-> SummaryFormatEach(ts, p, IdSeq(top), 0),
      footer |-> [kind |-> IF p.isPreview THEN "tip-preview"
                           ELSE IF p.compactMode THEN "tip-compact" ELSE "none",
                  next |-> 0, depthNote |-> FALSE]]

(***************************************************************************)
(* checkvist_get_task_tree                                                  *)
(***************************************************************************)
TreePolicy(args) ==
  [maxDepth |-> DepthArg(args, TreeDefaultDepth),
   includeClosed |-> ArgTrue(args, "include_closed"),
   compactMode |-> ArgTrue(args, "compact")]

\* a slip in the test: the invalidated tasks are skipped, not the closed ones
TreeSkipClosed_Invalidated(p, task) == ~p.includeClosed /\ task.status = StatusInvalidated
\* if (!includeClosed && task.status === 1) return ''
TreeSkipClosed(p, task) == ~p.includeClosed /\ task.status = StatusClosed

\* a slip in the guard: the children at depth maxDepth are expanded as well
TreeExpands_Inclusive(p, task, depth) == depth <= p.maxDepth /\ Len(task.tasks) > 0
\* if (depth < maxDepth && task.tasks && task.tasks.length > 0)
TreeExpands(p, task, depth) == depth < p.maxDepth /\ Len(task.tasks) > 0
\* else if (depth >= maxDepth && task.tasks && task.tasks.length > 0)
TreeElides(p, task, depth) == depth >= p.maxDepth /\ Len(task.tasks) > 0

RECURSIVE TreeFormatTask(_, _, _, _)
RECURSIVE TreeFormatEach(_, _, _, _)

TreeFormatEach(ts, p, ids, depth) ==
  IF ids = <<>> THEN <<>>
  ELSE TreeFormatTask(ts, p, Head(ids), depth) \o TreeFormatEach(ts, p, Tail(ids), depth)

TreeFormatTask(ts, p, taskId, depth) ==
  LET task == taskMapGet(ts, taskId) IN
  IF ~taskMapHas(ts, taskId) THEN <<>>
  ELSE IF TreeSkipClosed(p, task) THEN <<>>
  ELSE IF p.compactMode
    THEN <<TaskLine(task, depth, "", "id-title")>>
         \o (IF TreeExpands(p, task, depth)
              THEN TreeFormatEach(ts, p, task.tasks, depth + 1)
              ELSE IF TreeElides(p, task, depth)
                   THEN <<MarkerLine(task, depth, "id-title")>>
                   ELSE <<>>)
    ELSE <<TaskLine(task, depth, Glyph3(task.status), "full")>>
         \o (IF TreeExpands(p, task, depth)
              THEN TreeFormatEach(ts, p, task.tasks, depth + 1)
              ELSE IF TreeElides(p, task, depth)
                   THEN <<MarkerLine(task, depth, "full")>>
                   ELSE <<>>)

\* a slip in the guard: the argument is tested, not the looked-up record
TreeRootFound_ArgOnly(ts, args) == args.task_id # 0
\* const rootTask = taskMap.get(args.task_id); if (!rootTask) throw ...
TreeRootFound(ts, args) == taskMapHas(ts, args.task_id)

TreeResult(ts, args) ==
  LET p == TreePolicy(args) IN
  IF ~TreeRootFound(ts, args) THEN Failure("TaskNotFound")
  ELSE [isError |-> FALSE, error |-> "",
        header |-> [kind |-> "tree", root |-> args.task_id, maxDepth |-> p.maxDepth,
                    mode |-> IF p.compactMode THEN "compact" ELSE "full"],
        lines |-> TreeFormatTask(ts, p, args.task_id, 0),
        footer |-> NoFooter]

(***************************************************************************)
(* checkvist_get_checklist_stats                                            *)
(***************************************************************************)
RECURSIVE getDepth(_, _, _)
RECURSIVE getDepthMax(_, _, _)

\* what a call yields when the call stack overflowed below it: the RangeError
\* propagates through every caller up to the handler's catch
Thrown == 0 - 1

\* Math.max(...task.tasks.map(childId => getDepth(childId, currentDepth + 1)))
\* over a non-empty list
getDepthMax(ts, ids, currentDepth) ==
  LET d == getDepth(ts, Head(ids), currentDepth) IN
  IF d = Thrown THEN Thrown
  ELSE IF Len(ids) = 1 THEN d
  ELSE LET r == getDepthMax(ts, Tail(ids), currentDepth)
       IN IF r = Thrown THEN Thrown ELSE IF d > r THEN d ELSE r

\* a slip in the walk: the children of a closed task are not followed
getDepth_ClosedIsLeaf(ts, taskId, currentDepth) ==
  LET task == taskMapGet(ts, taskId) IN
  IF currentDepth > StackLimit THEN Thrown
  ELSE IF \/ ~taskMapHas(ts, taskId)
          \/ Len(task.tasks) = 0
          \/ task.status = StatusClosed THEN currentDepth
  ELSE getDepthMax(ts, task.tasks, currentDepth + 1)
\* getDepth has no guard of its own: a call nested deeper than the stack holds
\* throws
getDepth(ts, taskId, currentDepth) ==
  LET task == taskMapGet(ts, taskId) IN
  IF currentDepth > StackLimit THEN Thrown
  ELSE IF ~taskMapHas(ts, taskId) \/ Len(task.tasks) = 0 THEN currentDepth
  ELSE getDepthMax(ts, task.tasks, currentDepth + 1)

\* topLevelTasks.map(task => getDepth(task.id, 0))
RECURSIVE rootDepths(_, _)
rootDepths(ts, top) ==
  IF top = <<>> THEN <<>>
  ELSE <<getDepth(ts, Head(top).id, 0)>> \o rootDepths(ts, Tail(top))

\* some getDepth call threw
DepthsThrown(depths) == \E i \in DOMAIN depths : depths[i] = Thrown

\* Math.max(...depths, 0)
RECURSIVE MaxOf(_)
MaxOf(ds) ==
  IF ds = <<>> THEN 0
  ELSE LET r == MaxOf(Tail(ds)) IN IF Head(ds) > r THEN Head(ds) ELSE r

RECURSIVE SumOf(_)
SumOf(ds) == IF ds = <<>> THEN 0 ELSE Head(ds) + SumOf(Tail(ds))

\* (num / den).toFixed(1): the printed number in tenths, rounded to nearest;
\* 0 / 0 is NaN, which prints as "NaN"
ToFixed1(num, den) ==
  IF den = 0 THEN [nan |-> TRUE, tenths |-> 0]
  ELSE [nan |-> FALSE, tenths |-> (num * 20 + den) \div (2 * den)]

RECURSIVE CountClosed(_)
CountClosed(ts) ==
  IF ts = <<>> THEN 0
  ELSE (IF Head(ts).status = StatusClosed THEN 1 ELSE 0) + CountClosed(Tail(ts))

\* a slip in the comparison: a checklist of exactly 50 tasks still counts as small
Recommendation_Inclusive(total) ==
  IF total <= SmallLimit THEN "summary-default"
  ELSE IF total < MediumLimit THEN "summary-compact" ELSE "paginated"
\* the size tier of the recommendation
Recommendation(total) ==
  IF total < SmallLimit THEN "summary-default"
  ELSE IF total < MediumLimit THEN "summary-compact" ELSE "paginated"

\* ((closedTasks.length / allTasks.length) * 100).toFixed(1), in tenths of a percent
ClosedPercent(closed, total) == ToFixed1(closed * 100, total)

StatsResult(ts) ==
  LET top == topLevelTasks(ts)
      depths == rootDepths(ts, top)
  IN IF DepthsThrown(depths) THEN Failure("RangeError") ELSE
     [isError |-> FALSE, error |-> "",
      header |-> [kind |-> "stats", total |-> Len(ts), topLevel |-> Len(top),
                  closed |-> CountClosed(ts),
                  closedPercent |-> ClosedPercent(CountClosed(ts), Len(ts)),
                  maxDepth |-> MaxOf(depths),
                  avgDepth |-> IF Len(depths) > 0 THEN ToFixed1(SumOf(depths), Len(depths))
                               ELSE [nan |-> FALSE, tenths |-> 0],
                  recommendation |-> Recommendation(Len(ts))],
      lines |-> <<>>,
      footer |-> NoFooter]

(***************************************************************************)
(* checkvist_list_top_level_tasks                                           *)
(***************************************************************************)
ListResult(ts) ==
  LET top == topLevelTasks(ts)
  IN [isError |-> FALSE, error |-> "",
      header |-> [kind |-> "list", topLevel |-> Len(top), ids |-> IdSeq(top)],
      lines |-> <<>>,
      footer |-> NoFooter]

(***************************************************************************)
(* checkvist_get_tasks_paginated                                            *)
(***************************************************************************)
PagePolicy(args) ==
  [compactMode |-> ~ArgFalse(args, "compact"),
   maxDepth |-> DepthArg(args, PaginatedDefaultDepth),
   ultraCompact |-> ArgTrue(args, "ultra_compact")]

\* a slip in the count: pages are counted over all tasks, not the top-level ones
totalPages_AllTasks(ts) == (Len(ts) + pageSize - 1) \div pageSize
\* Math.ceil(topLevelTasks.length / pageSize)
totalPages(ts) == (Len(topLevelTasks(ts)) + pageSize - 1) \div pageSize

\* a slip in the upper limit: page totalPages + 1 is let through
InvalidPage_OffByOne(ts, pageNum) == pageNum < 1 \/ pageNum > totalPages(ts) + 1
\* pageNum < 1 || pageNum > totalPages
InvalidPage(ts, pageNum) == pageNum < 1 \/ pageNum > totalPages(ts)

\* Array.prototype.slice(from, to): a negative index counts from the end, every
\* index is clamped to 0..length, and the result is empty when from >= to
Slice(s, from, to) ==
  LET clamp(i) == IF i < 0 THEN (IF Len(s) + i < 0 THEN 0 ELSE Len(s) + i)
                  ELSE IF i > Len(s) THEN Len(s) ELSE i
      a == clamp(from)
      b == clamp(to)
  IN IF a >= b THEN <<>> ELSE SubSeq(s, a + 1, b)

\* a slip in the start index: the page number is taken as 0-based
pageTasks_ZeroBased(ts, pageNum) ==
  LET top == topLevelTasks(ts)
      startIdx == pageNum * pageSize
      endIdx == IF startIdx + pageSize < Len(top) THEN startIdx + pageSize ELSE Len(top)
  IN Slice(top, startIdx, endIdx)
\* topLevelTasks.slice(startIdx, endIdx)
pageTasks(ts, pageNum) ==
  LET top == topLevelTasks(ts)
      startIdx == (pageNum - 1) * pageSize
      endIdx == IF startIdx + pageSize < Len(top) THEN startIdx + pageSize ELSE Len(top)
  IN Slice(top, startIdx, endIdx)

\* a slip in the depth test: one level more than max_depth is expanded
PageExpands_OneMore(p, task, depth) == depth <= p.maxDepth /\ Len(task.tasks) > 0
\* if (depth < maxDepth && task.tasks && task.tasks.length > 0)
PageExpands(p, task, depth) == depth < p.maxDepth /\ Len(task.tasks) > 0
\* else if (depth >= maxDepth && task.tasks && task.tasks.length > 0)
PageElides(p, task, depth) == depth >= p.maxDepth /\ Len(task.tasks) > 0

RECURSIVE PageFormatTask(_, _, _, _)
RECURSIVE PageFormatEach(_, _, _, _)

PageFormatEach(ts, p, ids, depth) ==
  IF ids = <<>> THEN <<>>
  ELSE PageFormatTask(ts, p, Head(ids), depth) \o PageFormatEach(ts, p, Tail(ids), depth)

PageFormatTask(ts, p, taskId, depth) ==
  LET task == taskMapGet(ts, taskId) IN
  IF ~taskMapHas(ts, taskId) THEN <<>>
  ELSE IF p.ultraCompact
    THEN <<TaskLine(task, depth, "", "id-title")>>
         \o (IF PageExpands(p, task, depth)
              THEN PageFormatEach(ts, p, task.tasks, depth + 1)
              ELSE <<>>)
  ELSE IF p.compactMode
    THEN <<TaskLine(task, depth, Glyph3(task.status), "compact")>>
         \o (IF PageExpands(p, task, depth)
              THEN PageFormatEach(ts, p, task.tasks, depth + 1)
              ELSE IF PageElides(p, task, depth)
                   THEN <<MarkerLine(task, depth, "compact")>>
                   ELSE <<>>)
    ELSE <<TaskLine(task, depth, Glyph3(task.status), "full")>>
         \o (IF PageExpands(p, task, depth)
              THEN PageFormatEach(ts, p, task.tasks, depth + 1)
              ELSE IF PageElides(p, task, depth)
                   THEN <<MarkerLine(task, depth, "full")>>
                   ELSE <<>>)

\* pageTasks.forEach(task => { output += formatTask(task.id, 0); output += "\n" })
RECURSIVE PageBody(_, _, _)
PageBody(ts, p, roots) ==
  IF roots = <<>> THEN <<>>
  ELSE PageFormatTask(ts, p, Head(roots).id, 0) \o PageBody(ts, p, Tail(roots))

\* a slip in the comparison: the last page still announces a next page
PageFooter_LastPageMore(pageNum, total, maxDepth) ==
  IF pageNum <= total
  THEN [kind |-> "more", next |-> pageNum + 1, depthNote |-> maxDepth < AllLevels]
  ELSE [kind |-> "end", next |-> 0, depthNote |-> maxDepth < AllLevels]
PageFooter(pageNum, total, maxDepth) ==
  IF pageNum < total
  THEN [kind |-> "more", next |-> pageNum + 1, depthNote |-> maxDepth < AllLevels]
  ELSE [kind |-> "end", next |-> 0, depthNote |-> maxDepth < AllLevels]

PageResult(ts, args) ==
  LET p == PagePolicy(args)
      pageNum == args.page
  IN IF InvalidPage(ts, pageNum) THEN Failure("InvalidPage")
     ELSE [isError |-> FALSE, error |-> "",
           header |-> [kind |-> "page", page |-> pageNum, totalPages |-> totalPages(ts),
                       topLevel |-> Len(topLevelTasks(ts)), total |-> Len(ts),
                       mode |-> IF p.ultraCompact THEN "ultra"
                                ELSE IF p.compactMode THEN "compact" ELSE "full",
                       maxDepth |-> p.maxDepth],
           lines |-> PageBody(ts, p, pageTasks(ts, pageNum)),
           footer |-> PageFooter(pageNum, totalPages(ts), p.maxDepth)]

(***************************************************************************)
(* scripts/check-cc-tags.js: strings                                        *)
(***************************************************************************)
\* Strings are sequences of characters.
Cc == <<"c", "c">>
CcSvar == <<"c", "c", "-", "s", "v", "a", "r">>
Acc == <<"a", "c", "c">>
Comma == <<",", " ">>

\* the tags_as_text values a task starts with: no tag, #cc, a tag that only
\* contains the letters cc, and #cc behind such a tag
TagTexts == { <<>>, Cc, Acc, Acc \o Comma \o Cc }

\* the places where pat occurs in text
Occurrences(text, pat) ==
  { i \in 1..(Len(text) - Len(pat) + 1) : SubSeq(text, i, i + Len(pat) - 1) = pat }

\* String.prototype.includes
includes(text, pat) == Occurrences(text, pat) # {}

\* String.prototype.replace with a string pattern: the first occurrence only
replace(text, pat, by) ==
  IF ~includes(text, pat) THEN text
  ELSE LET i == CHOOSE k \in Occurrences(text, pat) : \A m \in Occurrences(text, pat) : k <= m
       IN SubSeq(text, 1, i - 1) \o by \o SubSeq(text, i + Len(pat), Len(text))

\* String.prototype.trim
RECURSIVE trim(_)
trim(text) ==
  IF text = <<>> THEN text
  ELSE IF Head(text) = " " THEN trim(Tail(text))
  ELSE IF text[Len(text)] = " " THEN trim(SubSeq(text, 1, Len(text) - 1))
  ELSE text

(***************************************************************************)
(* Tool calls                                                               *)
(***************************************************************************)
BaseArgs == [checklist_id |-> 1]

\* explicit max_depth arguments
DepthVals == (0..MaxDepthArg) \cup {AllLevels}

\* argument objects with and without max_depth
WithDepth(S) == S \cup { a @@ [max_depth |-> d] : a \in S, d \in DepthVals }
\* argument objects with and without the key k set to v
WithKey(S, k, v) == S \cup { a @@ (k :> v) : a \in S }

\* the ids named in the children lists of the records with an id in S
ChildrenOf(ts, S) ==
  UNION { { ts[i].tasks[k] : k \in DOMAIN ts[i].tasks } :
          i \in { j \in DOMAIN ts : ts[j].id \in S } }

RECURSIVE ReachIn(_, _, _)
ReachIn(ts, S, k) ==
  IF k = 0 THEN S ELSE ReachIn(ts, S \cup ChildrenOf(ts, S), k - 1)

\* no task is its own descendant
Acyclic(ts) ==
  \A i \in DOMAIN ts :
     ts[i].id \notin ReachIn(ts, ChildrenOf(ts, {ts[i].id}), Len(ts))

\* On a cycle a render recurses until depth reaches maxDepth: with the "all
\* levels" value that is a hundred levels of output.  Renders of a cyclic
\* checklist are explored for the smaller depths only.
Explored(ts, maxDepth) == maxDepth < AllLevels \/ Acyclic(ts)

SummaryArgs(ts) ==
  { a \in WithKey(WithKey(WithKey(WithDepth({BaseArgs}), "include_closed", TRUE),
                          "compact", TRUE), "preview", TRUE) :
      Explored(ts, SummaryPolicy(a).maxDepth) }

TreeArgs(ts) ==
  { a \in WithKey(WithKey(WithDepth({ BaseArgs @@ [task_id |-> t] : t \in 1..(Len(ts) + 2) }),
                          "include_closed", TRUE), "compact", TRUE) :
      Explored(ts, TreePolicy(a).maxDepth) }

PageArgs(ts) ==
  { a \in WithKey(WithKey(WithDepth({ BaseArgs @@ [page |-> k] : k \in 0..(Len(ts) + 1) }),
                          "compact", FALSE), "ultra_compact", TRUE) :
      Explored(ts, PagePolicy(a).maxDepth) }

Init ==
  /\ tasks \in Checklists
  /\ call = NoCall
  /\ result = NoResult
  /\ cc = NoRun
  /\ auth = NoAuth

GetTasksSummary ==
  /\ call = NoCall
  /\ \E args \in SummaryArgs(tasks) :
       /\ call' = [tool |-> "checkvist_get_tasks_summary", args |-> args]
       /\ result' = SummaryResult(tasks, args)
  /\ UNCHANGED <<tasks, cc, auth>>

GetTaskTree ==
  /\ call = NoCall
  /\ \E args \in TreeArgs(tasks) :
       /\ call' = [tool |-> "checkvist_get_task_tree", args |-> args]
       /\ result' = TreeResult(tasks, args)
  /\ UNCHANGED <<tasks, cc, auth>>

GetChecklistStats ==
  /\ call = NoCall
  /\ call' = [tool |-> "checkvist_get_checklist_stats", args |-> BaseArgs]
  /\ result' = StatsResult(tasks)
  /\ UNCHANGED <<tasks, cc, auth>>

ListTopLevelTasks ==
  /\ call = NoCall
  /\ call' = [tool |-> "checkvist_list_top_level_tasks", args |-> BaseArgs]
  /\ result' = ListResult(tasks)
  /\ UNCHANGED <<tasks, cc, auth>>

GetTasksPaginated ==
  /\ call = NoCall
  /\ \E args \in PageArgs(tasks) :
       /\ call' = [tool |-> "checkvist_get_tasks_paginated", args |-> args]
       /\ result' = PageResult(tasks, args)
  /\ UNCHANGED <<tasks, cc, auth>>

\* the reply has been returned to the client; the server waits for the next call
Reply ==
  /\ call # NoCall
  /\ call' = NoCall
  /\ result' = NoResult
  /\ UNCHANGED <<tasks, cc, auth>>

Next ==
  \/ GetTasksSummary
  \/ GetTaskTree
  \/ GetChecklistStats
  \/ ListTopLevelTasks
  \/ GetTasksPaginated
  \/ Reply

Spec == Init /\ [][Next]_vars

\* the same server in front of a deep checklist
InitDeep ==
  /\ tasks \in DeepChecklists
  /\ call = NoCall
  /\ result = NoResult
  /\ cc = NoRun
  /\ auth = NoAuth

SpecDeep == InitDeep /\ [][Next]_vars

\* The recommendation of the stats view for checklists of every size up to
\* MaxTotal: the branch on allTasks.length, applied to the count alone
RecommendForSize ==
  /\ call = NoCall
  /\ \E total \in 0..MaxTotal :
       /\ call' = [tool |-> "recommendation", args |-> [total |-> total]]
       /\ result' = [isError |-> FALSE, error |-> "",
                     header |-> [kind |-> "recommendation", total |-> total,
                                 recommendation |-> Recommendation(total)],
                     lines |-> <<>>, footer |-> NoFooter]
  /\ UNCHANGED <<tasks, cc, auth>>

InitSizes ==
  /\ tasks = <<>>
  /\ call = NoCall
  /\ result = NoResult
  /\ cc = NoRun
  /\ auth = NoAuth

NextSizes == RecommendForSize \/ Reply

SpecSizes == InitSizes /\ [][NextSizes]_vars

\* the messages of the errors checkvistapiCall can throw: the login was
\* refused, or the API answered with an error status
RemoteMessages == {"Authentication failed", "Checkvist API error"}

\* the calls of the tools that fetch the checklist
ViewCalls(ts) ==
  { [tool |-> "checkvist_get_tasks_summary", args |-> a] : a \in SummaryArgs(ts) }
  \cup { [tool |-> "checkvist_get_task_tree", args |-> a] : a \in TreeArgs(ts) }
  \cup { [tool |-> "checkvist_get_tasks_paginated", args |-> a] : a \in PageArgs(ts) }
  \cup { [tool |-> t, args |-> BaseArgs] :
           t \in {"checkvist_get_checklist_stats", "checkvist_list_top_level_tasks"} }

\* a view handler whose checkvistapiCall throws: the error reaches the catch of
\* the request handler before anything was rendered
RemoteFailure ==
  /\ call = NoCall
  /\ \E c \in ViewCalls(tasks), msg \in RemoteMessages :
       /\ call' = c @@ [remote |-> msg]
       /\ result' = Failure(msg)
  /\ UNCHANGED <<tasks, cc, auth>>

\* default: throw new Error(`Unknown tool: ${name}`)
UnknownTool ==
  /\ call = NoCall
  /\ call' = [tool |-> "no_such_tool", args |-> BaseArgs]
  /\ result' = Failure("Unknown tool: no_such_tool")
  /\ UNCHANGED <<tasks, cc, auth>>

\* the server in front of a remote service that can fail
NextRemote ==
  \/ Next
  \/ RemoteFailure
  \/ UnknownTool

SpecRemote == Init /\ [][NextRemote]_vars

\* the same server in front of a malformed checklist
InitCyclic ==
  /\ tasks \in CyclicChecklists
  /\ call = NoCall
  /\ result = NoResult
  /\ cc = NoRun
  /\ auth = NoAuth

SpecCyclic == InitCyclic /\ [][Next]_vars

\* typeof args.max_depth === 'number' takes any number: a max_depth below zero
NegativeDepth == 0 - 1

\* the render views called with a negative max_depth
NegativeDepthCalls(ts) ==
  { [tool |-> "checkvist_get_tasks_summary", args |-> BaseArgs @@ [max_depth |-> NegativeDepth]] }
  \cup { [tool |-> "checkvist_get_task_tree",
          args |-> BaseArgs @@ [task_id |-> t, max_depth |-> NegativeDepth]] :
            t \in 1..(Len(ts) + 2) }
  \cup { [tool |-> "checkvist_get_tasks_paginated",
          args |-> BaseArgs @@ [page |-> k, max_depth |-> NegativeDepth]] :
            k \in 0..(Len(ts) + 1) }

NegativeDepthCall ==
  /\ call = NoCall
  /\ \E c \in NegativeDepthCalls(tasks) :
       /\ call' = c
       /\ result' = IF c.tool = "checkvist_get_tasks_summary" THEN SummaryResult(tasks, c.args)
                    ELSE IF c.tool = "checkvist_get_task_tree" THEN TreeResult(tasks, c.args)
                    ELSE PageResult(tasks, c.args)
  /\ UNCHANGED <<tasks, cc, auth>>

\* the server in front of a malformed checklist, called with any max_depth
NextAnyDepth ==
  \/ Next
  \/ NegativeDepthCall

SpecAnyDepth == InitCyclic /\ [][NextAnyDepth]_vars

(***************************************************************************)
(* scripts/check-cc-tags.js: the #cc automation                             *)
(***************************************************************************)
\* The tasks on the Checkvist server and the checklists they are in: the first
\* checklist holds MaxCcTasks tasks, the second one more task.
CcTaskIds == 1..(MaxCcTasks + 1)
checklists == <<1, 2>>
ListOf(t) == IF t > MaxCcTasks THEN checklists[2] ELSE checklists[1]

\* tasks.json of a checklist: its tasks with their tags as they are now
RECURSIVE TasksOfList(_, _, _)
TasksOfList(c, l, t) ==
  IF t \notin CcTaskIds THEN <<>>
  ELSE (IF ListOf(t) = l THEN <<[id |-> t, tags_as_text |-> c.tags[t]]>> ELSE <<>>)
       \o TasksOfList(c, l, t + 1)

\* task.tags_as_text && task.tags_as_text.includes('cc')
IsCcTask(task) == task.tags_as_text # <<>> /\ includes(task.tags_as_text, Cc)

RECURSIVE ccTasksOf(_)
ccTasksOf(ts) ==
  IF ts = <<>> THEN <<>>
  ELSE (IF IsCcTask(Head(ts)) THEN <<Head(ts)>> ELSE <<>>) \o ccTasksOf(Tail(ts))

\* task.tags_as_text.replace('cc', 'cc-svar').trim()
newTags(task) == trim(replace(task.tags_as_text, Cc, CcSvar))

\* the task the inner loop is at
CurrentTask(c) == c.ccTasks[c.ti]

\* the outer catch: the error is printed and the process exits with code 1
Fatal(c) == [c EXCEPT !.pc = "fatal", !.exit = 1]

\* the outer loop reaches checklist number l, or ends after the last one
EnterList(c, l) ==
  IF l > Len(checklists) THEN [c EXCEPT !.pc = "done", !.exit = 0]
  ELSE [c EXCEPT !.pc = "tasks", !.li = l]

\* the inner loop goes on to the next #cc task, or the outer loop to the next
\* checklist
Advance(c) ==
  IF c.ti < Len(c.ccTasks) THEN [c EXCEPT !.ti = c.ti + 1, !.pc = "detail"]
  ELSE EnterList(c, c.li + 1)

\* a slip in the error handling: a failed step ends the whole run
Caught_Aborts(c, step) ==
  Fatal([c EXCEPT !.outcome[CurrentTask(c).id] = "failed"])
\* the catch inside the inner loop: the error is printed, the loop goes on
Caught(c, step) ==
  Advance([c EXCEPT !.outcome[CurrentTask(c).id] = "failed"])

InitCc ==
  /\ tasks = <<>>
  /\ call = NoCall
  /\ result = NoResult
  /\ auth = NoAuth
  /\ \E f \in { g \in [CcTaskIds -> TagTexts] : g[MaxCcTasks + 1] = Cc } :
       cc = [pc |-> "idle", tags |-> f, orig |-> f,
             comments |-> [t \in CcTaskIds |-> 0],
             li |-> 0, ccTasks |-> <<>>, ti |-> 0, totalProcessed |-> 0,
             outcome |-> [t \in CcTaskIds |-> "none"], exit |-> 0]

\* the scheduled workflow starts the script
StartRun ==
  /\ cc.pc \in {"idle", "done", "fatal"}
  /\ \A t \in CcTaskIds : cc.comments[t] < MaxComments
  /\ cc' = [cc EXCEPT !.pc = "lists", !.li = 0, !.ccTasks = <<>>,
                      !.ti = 0, !.totalProcessed = 0,
                      !.outcome = [t \in CcTaskIds |-> "none"], !.exit = 0]
  /\ UNCHANGED <<tasks, call, result, auth>>

\* checkvist('/checklists.json')
ListChecklists ==
  /\ cc.pc = "lists"
  /\ \/ cc' = EnterList(cc, 1)
     \/ cc' = Fatal(cc)
  /\ UNCHANGED <<tasks, call, result, auth>>

\* checkvist(`/checklists/${checklist.id}/tasks.json`) and the filter
FetchTasks ==
  /\ cc.pc = "tasks"
  /\ \/ LET found == ccTasksOf(TasksOfList(cc, checklists[cc.li], 1))
        IN cc' = IF Len(found) = 0
                 THEN EnterList([cc EXCEPT !.ccTasks = found], cc.li + 1)
                 ELSE [cc EXCEPT !.pc = "detail", !.ccTasks = found, !.ti = 1]
     \/ cc' = Fatal(cc)
  /\ UNCHANGED <<tasks, call, result, auth>>

\* checkvist(`.../tasks/${task.id}.json?with_notes=true`)
FetchDetail ==
  /\ cc.pc = "detail"
  /\ \/ cc' = [cc EXCEPT !.pc = "ask"]
     \/ cc' = Caught(cc, "detail failed")
  /\ UNCHANGED <<tasks, call, result, auth>>

\* askClaude(task.content, context)
AskClaude ==
  /\ cc.pc = "ask"
  /\ \/ cc' = [cc EXCEPT !.pc = "comment"]
     \/ cc' = Caught(cc, "claude failed")
  /\ UNCHANGED <<tasks, call, result, auth>>

\* POST .../comments.json
PostComment ==
  /\ cc.pc = "comment"
  /\ \/ cc' = [cc EXCEPT !.comments[CurrentTask(cc).id] = @ + 1, !.pc = "tag"]
     \/ cc' = Caught(cc, "comment failed")
  /\ UNCHANGED <<tasks, call, result, auth>>

\* PUT .../tasks/${task.id}.json with the new tags; the server stores the tags
\* it is sent
UpdateTag ==
  /\ cc.pc = "tag"
  /\ \/ LET task == CurrentTask(cc)
        IN cc' = Advance([cc EXCEPT !.tags[task.id] = newTags(task),
                                    !.totalProcessed = @ + 1,
                                    !.outcome[task.id] = "done"])
     \/ cc' = Caught(cc, "tag failed")
  /\ UNCHANGED <<tasks, call, result, auth>>

NextCc ==
  \/ StartRun
  \/ ListChecklists
  \/ FetchTasks
  \/ FetchDetail
  \/ AskClaude
  \/ PostComment
  \/ UpdateTag

SpecCc == InitCc /\ [][NextCc]_vars

(***************************************************************************)
(* getAuthToken: the token cache                                            *)
(***************************************************************************)
\* Time is counted in hours.  A token is named by the hour of the login
\* response that carried it.
NoToken == 0 - 1
CallIds == 1..MaxCalls
IdleCall == [pc |-> "idle", started |-> 0]
\* no call has completed in the current hour
NoneDone == [kind |-> "none", started |-> 0, got |-> NoToken]

\* a slip in the comparison: the buffer is added to the expiry
TokenValid_BufferAdded(a) ==
  /\ a.authToken # NoToken
  /\ a.tokenExpiry # 0
  /\ a.now < a.tokenExpiry + ExpiryBuffer
\* authToken && tokenExpiry && Date.now() < tokenExpiry - 3600000
TokenValid(a) ==
  /\ a.authToken # NoToken
  /\ a.tokenExpiry # 0
  /\ a.now < a.tokenExpiry - ExpiryBuffer

\* calls[i] is where call i of getAuthToken stands and the hour it started;
\* done is the call that completed last in the current hour: how it ended,
\* the hour it started and the token it returned
InitAuth ==
  /\ tasks = <<>>
  /\ call = NoCall
  /\ result = NoResult
  /\ cc = NoRun
  /\ auth = [authToken |-> NoToken, tokenExpiry |-> 0, now |-> 0,
             calls |-> [i \in CallIds |-> IdleCall], done |-> NoneDone]

\* checkvistapiCall enters getAuthToken: the cached token is returned at once,
\* or the login request is sent and the call waits for the response
EnterGetAuthToken(i) ==
  /\ auth.calls[i].pc = "idle"
  /\ IF TokenValid(auth)
     THEN auth' = [auth EXCEPT !.done = [kind |-> "cached", started |-> auth.now,
                                         got |-> auth.authToken]]
     ELSE auth' = [auth EXCEPT !.calls[i] = [pc |-> "login", started |-> auth.now]]
  /\ UNCHANGED <<tasks, call, result, cc>>

\* the login response is ok: authToken = data.token,
\* tokenExpiry = Date.now() + 86400000, return authToken
LoginSucceeds(i) ==
  /\ auth.calls[i].pc = "login"
  /\ auth' = [auth EXCEPT !.authToken = auth.now,
                          !.tokenExpiry = auth.now + TokenLifetime,
                          !.calls[i] = IdleCall,
                          !.done = [kind |-> "login", started |-> auth.calls[i].started,
                                    got |-> auth.now]]
  /\ UNCHANGED <<tasks, call, result, cc>>

\* the login response is not ok: Authentication failed is thrown
LoginFails(i) ==
  /\ auth.calls[i].pc = "login"
  /\ auth' = [auth EXCEPT !.calls[i] = IdleCall,
                          !.done = [kind |-> "thrown", started |-> auth.calls[i].started,
                                    got |-> NoToken]]
  /\ UNCHANGED <<tasks, call, result, cc>>

\* an hour passes; a login response takes at most MaxWait hours
Tick ==
  /\ auth.now < MaxTime
  /\ \A i \in CallIds :
       auth.calls[i].pc = "login" => auth.now - auth.calls[i].started < MaxWait
  /\ auth' = [auth EXCEPT !.now = auth.now + 1, !.done = NoneDone]
  /\ UNCHANGED <<tasks, call, result, cc>>

NextAuth ==
  \/ \E i \in CallIds : EnterGetAuthToken(i)
  \/ \E i \in CallIds : LoginSucceeds(i)
  \/ \E i \in CallIds : LoginFails(i)
  \/ Tick

SpecAuth == InitAuth /\ [][NextAuth]_vars

(***************************************************************************)
(* Vocabulary of the properties: the checklist as a graph, the reply as a   *)
(* set of lines                                                             *)
(***************************************************************************)
IsSummary == call.tool = "checkvist_get_tasks_summary"
IsTree == call.tool = "checkvist_get_task_tree"
IsStats == call.tool = "checkvist_get_checklist_stats"
IsPaginated == call.tool = "checkvist_get_tasks_paginated"

\* the ids that have a record in the checklist
RecordIds == { tasks[i].id : i \in DOMAIN tasks }
\* the record of an id that has one
RecordOf(id) == tasks[CHOOSE i \in DOMAIN tasks : tasks[i].id = id]
\* the ids on the children list of a task
ChildIds(id) == { RecordOf(id).tasks[i] : i \in DOMAIN RecordOf(id).tasks }

\* the tasks below a task: children that have a record, and the tasks below them
RECURSIVE Descendants(_)
Descendants(id) ==
  IF id \notin RecordIds THEN {}
  ELSE UNION { {c} \cup Descendants(c) : c \in ChildIds(id) \cap RecordIds }

\* the ids with status closed
ClosedIds == { id \in RecordIds : RecordOf(id).status = StatusClosed }

\* the indices of the task lines of the reply, and the ids printed on them
TaskLineIdx == { i \in DOMAIN result.lines : result.lines[i].kind = "task" }
RenderedIds == { result.lines[i].id : i \in TaskLineIdx }

\* the positions of the top-level tasks in the response, and their number
TopPositions == { i \in DOMAIN tasks : tasks[i].parent_id = 0 }
TopCount == Cardinality(TopPositions)

(***************************************************************************)
(* C1  Pruning (summary view, subtree view)                                 *)
(***************************************************************************)
\* C1 as stated: in the summary view and in the subtree view, with
\* include_closed false, no closed task is rendered and no descendant of any
\* closed task of the checklist is rendered.
C1_Original ==
  ((IsSummary \/ IsTree) /\ ~result.isError /\ ~ArgTrue(call.args, "include_closed"))
    => /\ RenderedIds \cap ClosedIds = {}
       /\ \A c \in ClosedIds : RenderedIds \cap Descendants(c) = {}

\* the closed tasks the render walks through: all of them in the summary view,
\* the requested task and the tasks below it in the subtree view
ClosedInRender ==
  IF IsTree
  THEN ClosedIds \cap ({call.args.task_id} \cup Descendants(call.args.task_id))
  ELSE ClosedIds

\* C1 amended: with include_closed false no closed task is rendered; the summary
\* view renders no descendant of a closed task, and the subtree view renders no
\* descendant of a closed task that is the requested task or lies below it.
C1_Pruning ==
  ((IsSummary \/ IsTree) /\ ~result.isError /\ ~ArgTrue(call.args, "include_closed"))
    => /\ RenderedIds \cap ClosedIds = {}
       /\ \A c \in ClosedInRender : RenderedIds \cap Descendants(c) = {}

\* C1 witness: a render without closed tasks that shows a task while leaving out
\* an open grandchild of it that sits below a closed child
C1_Witness ==
  /\ IsSummary \/ IsTree
  /\ ~result.isError
  /\ ~ArgTrue(call.args, "include_closed")
  /\ result.header.maxDepth = AllLevels
  /\ \E r \in RenderedIds : \E c \in ClosedIds \cap ChildIds(r) :
        \E g \in Descendants(c) :
          /\ RecordOf(g).status = StatusOpen
          /\ g \notin RenderedIds

(***************************************************************************)
(* C2  Invalid page                                                         *)
(***************************************************************************)
\* C2: the paginated view fails with an invalid-page error and renders nothing
\* for every page number outside 1..totalPages (page 0, page totalPages + 1,
\* every page of a checklist without top-level tasks); a page number inside
\* the range is served as asked, never another page in its place.
C2_InvalidPage ==
  IsPaginated =>
    /\ (call.args.page < 1 \/ call.args.page > TopCount)
         => /\ result.isError
            /\ result.error = "InvalidPage"
            /\ result.header = NoHeader
            /\ result.lines = <<>>
    /\ ~result.isError => result.header.page = call.args.page

\* C2 witness: page totalPages + 1 of a checklist with top-level tasks was refused
C2_Witness ==
  /\ IsPaginated
  /\ TopCount >= 1
  /\ call.args.page = TopCount + 1
  /\ result.isError

(***************************************************************************)
(* C3  Task not found                                                       *)
(***************************************************************************)
\* C3: the subtree view fails with task-not-found, without header or partial
\* render, exactly when the requested id has no record in the fetched task set.
C3_TaskNotFound ==
  IsTree =>
    /\ call.args.task_id \notin RecordIds
         => /\ result.isError
            /\ result.error = "TaskNotFound"
            /\ result.header = NoHeader
            /\ result.lines = <<>>
    /\ call.args.task_id \in RecordIds => ~result.isError

\* C3 witness: a task id that only occurs on a children list was requested
C3_Witness ==
  /\ IsTree
  /\ call.args.task_id \notin RecordIds
  /\ \E r \in RecordIds : call.args.task_id \in ChildIds(r)
  /\ result.isError

(***************************************************************************)
(* C4  Full render visits every record once                                 *)
(***************************************************************************)
\* the ids of the top-level tasks
TopIds == { tasks[i].id : i \in TopPositions }

\* the number of levels below a task, over the children that have a record
RECURSIVE Height(_)
Height(id) ==
  LET cs == ChildIds(id) \cap RecordIds
  IN IF cs = {} THEN 0
     ELSE LET h == CHOOSE x \in { Height(c) : c \in cs } :
                     \A y \in { Height(c) : c \in cs } : y <= x
          IN 1 + h

\* no top-level task has more levels below it than max_depth
DepthCoversTree == \A r \in TopIds : Height(r) <= result.header.maxDepth

\* a full-mode summary with closed tasks included and the whole depth shown
FullSummaryOfAll ==
  /\ IsSummary
  /\ result.header.mode = "full"
  /\ result.header.includeClosed
  /\ DepthCoversTree

\* every record is a top-level task or below one
AllReachable == RecordIds = TopIds \cup UNION { Descendants(r) : r \in TopIds }

\* each record on exactly one task line, as many task lines as the header and
\* the stats view count records
VisitsEveryRecordOnce ==
  /\ \A id \in RecordIds : Cardinality({ i \in TaskLineIdx : result.lines[i].id = id }) = 1
  /\ Cardinality(TaskLineIdx) = result.header.total
  /\ result.header.total = StatsResult(tasks).header.total

\* C4 as stated: for every task set the full-mode summary with include_closed
\* and max_depth 99 (or at least the tree's depth) renders every record on
\* exactly one task line, and the number of task lines equals the total.
C4_Original == FullSummaryOfAll => VisitsEveryRecordOnce

\* C4 amended: the same, for every task set in which every record is a
\* top-level task or reachable from one through children lists.
C4_VisitsAll == (FullSummaryOfAll /\ AllReachable) => VisitsEveryRecordOnce

\* C4 witness: a full render of a checklist with two top-level tasks, a
\* subtask and a closed task
C4_Witness ==
  /\ FullSummaryOfAll
  /\ AllReachable
  /\ TopCount >= 2
  /\ ClosedIds # {}
  /\ \E r \in TopIds : Height(r) >= 1
  /\ Cardinality(TaskLineIdx) = Len(tasks)

(***************************************************************************)
(* C5  Pagination completeness                                              *)
(***************************************************************************)
\* the ids on the task lines of a rendered body
LineIds(lines) == { lines[i].id : i \in { j \in DOMAIN lines : lines[j].kind = "task" } }

UltraPageArgs(k) ==
  BaseArgs @@ [page |-> k, max_depth |-> AllLevels, ultra_compact |-> TRUE]
FullSummaryArgs == BaseArgs @@ [max_depth |-> AllLevels, include_closed |-> TRUE]

\* the ids of all pages 1..totalPages in ultra-compact mode at max_depth 99
AllPagesIds == UNION { LineIds(PageResult(tasks, UltraPageArgs(k)).lines) : k \in 1..TopCount }

\* C5: the ids rendered by the full-mode summary at max_depth 99 with closed
\* tasks included are the ids rendered on pages 1..totalPages of the paginated
\* view in ultra-compact mode at max_depth 99, and each such page renders only
\* ids of that summary.
C5_PaginationComplete ==
  /\ (IsSummary /\ call.args = FullSummaryArgs) => RenderedIds = AllPagesIds
  /\ (IsPaginated /\ ~result.isError /\ call.args = UltraPageArgs(call.args.page))
       => RenderedIds \subseteq LineIds(SummaryResult(tasks, FullSummaryArgs).lines)

\* C5 witness: the full summary of a checklist of several pages with subtasks
\* and a closed task
C5_Witness ==
  /\ IsSummary
  /\ call.args = FullSummaryArgs
  /\ TopCount >= 2
  /\ ClosedIds # {}
  /\ RenderedIds \ TopIds # {}

(***************************************************************************)
(* C6  Preview                                                              *)
(***************************************************************************)
\* C6 as stated: with preview = true the summary view renders top-level tasks
\* only: every task line is at depth 0 and shows a task without parent.
C6_Original ==
  (IsSummary /\ ArgTrue(call.args, "preview"))
    => \A i \in TaskLineIdx :
         /\ result.lines[i].depth = 0
         /\ result.lines[i].id \in TopIds

(***************************************************************************)
(* C7  One top-level task per page                                          *)
(***************************************************************************)
\* the id of the k-th top-level task in response order
KthTop(k) ==
  tasks[CHOOSE i \in TopPositions : Cardinality({ j \in TopPositions : j <= i }) = k].id

\* the indices of the task lines at depth 0
RootLineIdx == { i \in TaskLineIdx : result.lines[i].depth = 0 }

RECURSIVE DescendantsWithin(_, _)
DescendantsWithin(id, k) ==
  IF k = 0 \/ id \notin RecordIds THEN {}
  ELSE UNION { {c} \cup DescendantsWithin(c, k - 1) : c \in ChildIds(id) \cap RecordIds }

IsRenderView == IsSummary \/ IsTree \/ IsPaginated

\* line i is a task line whose task has a non-empty children list
HasChildrenAt(i) ==
  /\ i \in TaskLineIdx
  /\ Len(RecordOf(result.lines[i].id).tasks) > 0

\* line i is followed by exactly one marker that counts its children, and by
\* no line of a child
ElidedAt(i) ==
  /\ i + 1 \in DOMAIN result.lines
  /\ result.lines[i + 1].kind = "marker"
  /\ result.lines[i + 1].n = Len(RecordOf(result.lines[i].id).tasks)
  /\ i + 2 \in DOMAIN result.lines
       => /\ result.lines[i + 2].kind = "task"
          /\ result.lines[i + 2].depth <= result.lines[i].depth

\* line i is followed by no marker, and the children of its task that have a
\* record and are not closed are rendered
ExpandedAt(i) ==
  /\ i + 1 \in DOMAIN result.lines => result.lines[i + 1].kind = "task"
  /\ (ChildIds(result.lines[i].id) \cap RecordIds) \ ClosedIds \subseteq RenderedIds

\* C9 as stated: in every view and mode a rendered task with children at depth
\* d >= max_depth is followed by exactly one elision marker with the number of
\* children and by none of its children; at depth d < max_depth it gets no
\* marker and its children are rendered.
C9_Original ==
  (IsRenderView /\ ~result.isError)
    => \A i \in DOMAIN result.lines :
         HasChildrenAt(i)
           => IF result.lines[i].depth >= result.header.maxDepth
              THEN ElidedAt(i)
              ELSE ExpandedAt(i)

(***************************************************************************)
(* C10  Closed fraction of an empty checklist                               *)
(***************************************************************************)
\* C10 as stated: the stats view of a task set without tasks does not fail and
\* reports the closed fraction as 0%.
C10_Original ==
  (IsStats /\ Len(tasks) = 0)
    => /\ ~result.isError
       /\ result.header.closedPercent = [nan |-> FALSE, tenths |-> 0]

(***************************************************************************)
(* C11  Depth computation on a cycle                                        *)
(***************************************************************************)
\* C11 as stated: the depth computation of the stats view terminates for every
\* task set, also when the children references form a cycle: the revisit is
\* cut off, so the view replies with its statistics and a maximum depth that
\* no walk without revisit can exceed.
C11_Original ==
  IsStats
    => /\ ~result.isError
       /\ result.header.kind = "stats"
       /\ result.header.maxDepth <= Len(tasks)

(***************************************************************************)
(* C12  Depth in the statistics                                             *)
(***************************************************************************)
\* every id on a children list has a record
AllChildrenResolve == \A id \in RecordIds : ChildIds(id) \subseteq RecordIds

\* the largest number of levels below a top-level task, 0 without top-level task
MaxHeight ==
  IF TopIds = {} THEN 0
  ELSE CHOOSE x \in { Height(r) : r \in TopIds } :
         \A y \in { Height(r) : r \in TopIds } : y <= x

\* C12: when every child id has a record (and the children graph is acyclic),
\* the stats view's depth of a task is 0 if it has no children and otherwise
\* 1 + the maximum depth of its children, whatever their status; the reported
\* maximum depth is the maximum over the top-level tasks, 0 when there is none.
C12_StatsDepth ==
  (IsStats /\ AllChildrenResolve)
    => /\ ~result.isError
       /\ \A id \in RecordIds :
            getDepth(tasks, id, 0)
              = IF ChildIds(id) = {} THEN 0
                ELSE 1 + (CHOOSE x \in { getDepth(tasks, c, 0) : c \in ChildIds(id) } :
                            \A y \in { getDepth(tasks, c, 0) : c \in ChildIds(id) } : y <= x)
       /\ \A id \in RecordIds : getDepth(tasks, id, 0) = Height(id)
       /\ result.header.maxDepth = MaxHeight

\* the stats view has answered for a checklist with two levels below a
\* top-level task, one of them under a closed task
C12_Witness ==
  /\ IsStats
  /\ AllChildrenResolve
  /\ ~result.isError
  /\ result.header.maxDepth = 2
  /\ \E id \in ClosedIds : ChildIds(id) # {} /\ Height(id) >= 1

(***************************************************************************)
(* C13  Missing child reference in rendering                                *)
(***************************************************************************)
\* the checklist with every id that has no record taken off the children lists
RECURSIVE Resolving(_, _)
Resolving(ts, ids) ==
  IF ids = <<>> THEN <<>>
  ELSE (IF taskMapHas(ts, Head(ids)) THEN <<Head(ids)>> ELSE <<>>)
       \o Resolving(ts, Tail(ids))
Stripped(ts) == [i \in DOMAIN ts |-> [ts[i] EXCEPT !.tasks = Resolving(ts, ts[i].tasks)]]

\* some children list names an id without record
HasMissingChild == \E id \in RecordIds : ~(ChildIds(id) \subseteq RecordIds)

\* C13 as stated: in the summary, subtree and paginated views a child id
\* without record contributes no output line and raises no error, and the
\* reply is exactly the reply for the checklist without that id on the
\* children list.
C13_Original ==
  /\ IsRenderView => \A i \in TaskLineIdx : result.lines[i].id \in RecordIds
  /\ IsSummary => result = SummaryResult(Stripped(tasks), call.args)
  /\ IsTree => result = TreeResult(Stripped(tasks), call.args)
  /\ IsPaginated => result = PageResult(Stripped(tasks), call.args)

(***************************************************************************)
(* C14  Missing child reference in the statistics                           *)
(***************************************************************************)
\* C14 as stated: the stats depth computation treats a child id without record
\* as absent: the depth of a task is the depth it has with that id taken off
\* its children list (0 when all its children are missing), and so is the
\* reported maximum depth.
C14_Original ==
  IsStats
    => /\ ~result.isError
       /\ \A id \in RecordIds :
            getDepth(tasks, id, 0) = getDepth(Stripped(tasks), id, 0)
       /\ \A id \in RecordIds :
            ChildIds(id) \cap RecordIds = {} => getDepth(tasks, id, 0) = 0
       /\ result.header.maxDepth = MaxHeight

(***************************************************************************)
(* C15  Output order                                                        *)
(***************************************************************************)
IsList == call.tool = "checkvist_list_top_level_tasks"

\* where an id stands in the response, and on the children list of a task
PosInTasks(id) == CHOOSE i \in DOMAIN tasks : tasks[i].id = id
PosInChildren(par, id) ==
  CHOOSE k \in DOMAIN RecordOf(par).tasks : RecordOf(par).tasks[k] = id

\* the task lines above line i with a smaller depth, and the nearest of them
LinesOver(i) ==
  { j \in TaskLineIdx : j < i /\ result.lines[j].depth < result.lines[i].depth }
ParentLine(i) == CHOOSE j \in LinesOver(i) : \A m \in LinesOver(i) : m <= j

\* two lines below depth 0 under the same parent line
SiblingLines(i, k) ==
  /\ i < k
  /\ result.lines[i].depth > 0
  /\ result.lines[k].depth = result.lines[i].depth
  /\ LinesOver(i) # {} /\ LinesOver(k) # {}
  /\ ParentLine(i) = ParentLine(k)

\* C15: every view renders depth-first in pre-order: the nearest line above a
\* task line with a smaller depth is the line of a task that lists it as a
\* child, one level up, and the lines of the children of one parent follow the
\* order of its children list; top-level tasks come in the order of the
\* response in the summary body, in the top-level listing and in the page
\* numbering.
C15_OutputOrder ==
  /\ (IsRenderView /\ ~result.isError)
       => /\ \A i \in TaskLineIdx :
               result.lines[i].depth > 0
                 => /\ LinesOver(i) # {}
                    /\ result.lines[ParentLine(i)].depth = result.lines[i].depth - 1
                    /\ result.lines[i].id \in ChildIds(result.lines[ParentLine(i)].id)
          /\ \A i, k \in TaskLineIdx :
               SiblingLines(i, k)
                 => PosInChildren(result.lines[ParentLine(i)].id, result.lines[i].id)
                      < PosInChildren(result.lines[ParentLine(i)].id, result.lines[k].id)
  /\ IsSummary
       => \A i, k \in RootLineIdx :
            /\ result.lines[i].id \in TopIds
            /\ i < k => PosInTasks(result.lines[i].id) < PosInTasks(result.lines[k].id)
  /\ (IsPaginated /\ ~result.isError)
       => \A i \in RootLineIdx : result.lines[i].id = KthTop(call.args.page)
  /\ IsList
       => /\ Len(result.header.ids) = TopCount
          /\ \A k \in DOMAIN result.header.ids : result.header.ids[k] = KthTop(k)

\* a summary with two top-level tasks and two children of one parent, neither
\* pair in ascending id order
C15_Witness ==
  /\ IsSummary
  /\ \E i, k \in RootLineIdx : i < k /\ result.lines[i].id > result.lines[k].id
  /\ \E i, k \in TaskLineIdx : SiblingLines(i, k) /\ result.lines[i].id > result.lines[k].id

(***************************************************************************)
(* C16  Empty checklist                                                     *)
(***************************************************************************)
\* C16: for a response without any record the summary view returns without
\* error, its header reports 0 top-level tasks and 0 total, and its body has
\* no task line (and no other line).
C16_EmptySummary ==
  (IsSummary /\ tasks = <<>>)
    => /\ ~result.isError
       /\ result.header.kind = "summary"
       /\ result.header.topLevel = 0
       /\ result.header.total = 0
       /\ TaskLineIdx = {}
       /\ result.lines = <<>>

\* the summary view has answered for a response without records
C16_Witness ==
  /\ IsSummary
  /\ tasks = <<>>
  /\ result.header.kind = "summary"
  /\ result # NoResult

(***************************************************************************)
(* C18  Policy resolution                                                   *)
(***************************************************************************)
\* the max_depth of the call, or the view's default when none is supplied
DepthOr(dflt) == IF "max_depth" \in DOMAIN call.args THEN call.args.max_depth ELSE dflt

\* the call asks for closed tasks
AsksClosed == "include_closed" \in DOMAIN call.args /\ call.args.include_closed = TRUE
\* the call asks for the preview
AsksPreview == "preview" \in DOMAIN call.args /\ call.args.preview = TRUE

\* C18: max_depth defaults to 99 in the summary view, 3 in the subtree view and
\* 2 in the paginated view; include_closed defaults to false (no closed task
\* is rendered unless it is asked for); with preview true the summary view
\* uses max depth 1 and the compact layout whatever max_depth and compact
\* arguments were supplied.
C18_PolicyResolution ==
  /\ (IsSummary /\ ~AsksPreview)
       => /\ result.header.maxDepth = DepthOr(99)
          /\ result.header.includeClosed = AsksClosed
  /\ (IsSummary /\ AsksPreview)
       => /\ result.header.maxDepth = 1
          /\ result.header.mode = "preview"
          /\ result.header.includeClosed = AsksClosed
          /\ \A i \in TaskLineIdx : /\ result.lines[i].layout = "compact"
                                    /\ result.lines[i].depth <= 1
          /\ \A i \in DOMAIN result.lines : result.lines[i].kind = "task"
  /\ (IsTree /\ ~result.isError) => result.header.maxDepth = DepthOr(3)
  /\ (IsPaginated /\ ~result.isError) => result.header.maxDepth = DepthOr(2)
  /\ ((IsSummary \/ IsTree) /\ ~AsksClosed) => RenderedIds \cap ClosedIds = {}

\* a preview that was called with max_depth 99 and without compact, on a
\* checklist with two levels below a top-level task, has shown one of them
C18_Witness ==
  /\ IsSummary
  /\ AsksPreview
  /\ "max_depth" \in DOMAIN call.args /\ call.args.max_depth = 99
  /\ "compact" \notin DOMAIN call.args
  /\ \E r \in TopIds : Height(r) = 2
  /\ \E i \in TaskLineIdx : result.lines[i].depth = 1

(***************************************************************************)
(* C19  Status glyphs in full mode                                          *)
(***************************************************************************)
\* the task lines of the reply in the full layout
FullLineIdx == { i \in TaskLineIdx : result.lines[i].layout = "full" }

\* C19 as stated: in full mode, in the summary, subtree and paginated views,
\* the status glyph tells the three statuses apart: two rendered tasks of
\* different status never carry the same glyph.
C19_Original ==
  IsRenderView
    => \A i, k \in FullLineIdx :
         RecordOf(result.lines[i].id).status # RecordOf(result.lines[k].id).status
           => result.lines[i].glyph # result.lines[k].glyph

(***************************************************************************)
(* C20  Navigation footer of the paginated view                             *)
(***************************************************************************)
\* C20: every valid page carries exactly one of the two footers: "more pages"
\* iff the page is not the last one, naming page + 1; "end of checklist" iff
\* the page is the last one, with the note on hidden deep subtasks iff
\* max_depth is below 99.  A refused page carries no footer.
C20_Footer ==
  /\ (IsPaginated /\ ~result.isError)
       => /\ result.footer.kind \in {"more", "end"}
          /\ result.footer.kind = "more" <=> call.args.page < TopCount
          /\ result.footer.kind = "more" => result.footer.next = call.args.page + 1
          /\ result.footer.kind = "end" <=> call.args.page = TopCount
          /\ result.footer.kind = "end" => (result.footer.depthNote <=> DepthOr(2) < 99)
  /\ (IsPaginated /\ result.isError) => result.footer.kind = "none"

\* the last of several pages has been read at a finite max_depth
C20_Witness ==
  /\ IsPaginated
  /\ TopCount >= 2
  /\ call.args.page = TopCount
  /\ result.footer.kind = "end"
  /\ result.footer.depthNote

(***************************************************************************)
(* C21  Recommendation tiers                                                *)
(***************************************************************************)
IsRecommendation == call.tool = "recommendation"

\* C21: the recommendation depends on the total task count only and names
\* exactly one tier: the full summary below 50 tasks, the compact summary from
\* 50 to 199, paginated reading from 200 on.
C21_Tiers ==
  IsRecommendation
    => /\ result.header.recommendation \in {"summary-default", "summary-compact", "paginated"}
       /\ result.header.recommendation = "summary-default" <=> result.header.total < 50
       /\ result.header.recommendation = "summary-compact"
            <=> (result.header.total >= 50 /\ result.header.total <= 199)
       /\ result.header.recommendation = "paginated" <=> result.header.total >= 200

\* the recommendation for a checklist of exactly 200 tasks
C21_Witness ==
  /\ IsRecommendation
  /\ result.header.total = 200
  /\ result.header.recommendation = "paginated"

(***************************************************************************)
(* Vocabulary of the #cc automation                                         *)
(***************************************************************************)
\* the tags of a tags_as_text value: the pieces between commas, trimmed
RECURSIVE SplitTags(_, _)
SplitTags(text, piece) ==
  IF text = <<>> THEN {trim(piece)} \ {<<>>}
  ELSE IF Head(text) = "," THEN ({trim(piece)} \ {<<>>}) \cup SplitTags(Tail(text), <<>>)
  ELSE SplitTags(Tail(text), Append(piece, Head(text)))
TagsOf(text) == SplitTags(text, <<>>)

\* one of the tags is cc
HasCcTag(text) == Cc \in TagsOf(text)

\* the script is working on a task: it is asking Claude, commenting or retagging
Processing == cc.pc \in {"ask", "comment", "tag"}

\* the ids of the tasks the run has selected in the current checklist
SelectedIds == { cc.ccTasks[i].id : i \in DOMAIN cc.ccTasks }

(***************************************************************************)
(* C22  Selection of the #cc tasks                                          *)
(***************************************************************************)
\* C22 as stated: in a run a task is processed if and only if one of its tags
\* is cc: a task being processed carries the tag cc, and right after the
\* tasks of a checklist were fetched every task of it that carries the tag cc
\* is selected and no other.
C22_Original ==
  /\ Processing => HasCcTag(CurrentTask(cc).tags_as_text)
  /\ (cc.pc = "detail" /\ cc.ti = 1)
       => \A t \in CcTaskIds :
            ListOf(t) = checklists[cc.li] => (t \in SelectedIds <=> HasCcTag(cc.tags[t]))

(***************************************************************************)
(* C23  Order of the steps and the new tags                                 *)
(***************************************************************************)
\* C23 as stated: for a processed task the steps come in the order ask,
\* comment, tag: the tag update is issued only when the comment was posted,
\* and a task whose tags were changed has a comment; after a successful
\* update the tags are the fetched tags with cc replaced by cc-svar and every
\* other tag unchanged.
C23_Original ==
  /\ cc.pc = "tag" => cc.comments[CurrentTask(cc).id] >= 1
  /\ cc.pc # "off"
       => \A t \in CcTaskIds : cc.tags[t] # cc.orig[t] => cc.comments[t] >= 1
  /\ cc.pc # "off"
       => \A i \in DOMAIN cc.ccTasks :
            (/\ ListOf(cc.ccTasks[i].id) = checklists[cc.li]
             /\ cc.outcome[cc.ccTasks[i].id] = "done")
              => TagsOf(cc.tags[cc.ccTasks[i].id])
                   = (TagsOf(cc.ccTasks[i].tags_as_text) \ {Cc}) \cup {CcSvar}

(***************************************************************************)
(* C26  At most one reply per tagging                                       *)
(***************************************************************************)
\* C26 as stated: once a run has posted a comment on a task and changed its
\* tag to cc-svar, no later run selects that task again: every selected task
\* still has the tags it was given by the user.
C26_Original ==
  cc.pc # "off"
    => \A i \in DOMAIN cc.ccTasks :
         cc.ccTasks[i].tags_as_text = cc.orig[cc.ccTasks[i].id]

(***************************************************************************)
(* C27  Failure isolation                                                   *)
(***************************************************************************)
\* the tasks whose steps all succeeded in this run
DoneIds == { t \in CcTaskIds : cc.outcome[t] = "done" }

\* C27: a failed step of a task skips the rest of that task only: the run goes
\* on and ends with exit code 0 after having tried every task it selects;
\* the processed count is the number of tasks whose steps all succeeded; a
\* failure listing the checklists or fetching the tasks of a checklist ends
\* the run with exit code 1 and no task of that or a later checklist tried.
C27_FailureIsolation ==
  cc.pc # "off"
    => /\ cc.totalProcessed = Cardinality(DoneIds)
       /\ cc.pc = "done"
            => /\ cc.exit = 0
               /\ \A t \in CcTaskIds :
                    cc.outcome[t] = "none" => ~IsCcTask([id |-> t, tags_as_text |-> cc.tags[t]])
       /\ cc.pc = "fatal"
            => /\ cc.exit = 1
               /\ \A t \in CcTaskIds :
                    (cc.li = 0 \/ ListOf(t) >= checklists[cc.li]) => cc.outcome[t] = "none"
       /\ \A t \in CcTaskIds :
            cc.outcome[t] = "failed" => (cc.tags[t] = cc.orig[t] \/ cc.comments[t] >= 1)

\* a run has ended normally after a step of one task failed and all steps of a
\* later task succeeded
C27_Witness ==
  /\ cc.pc = "done"
  /\ cc.totalProcessed >= 1
  /\ \E t, u \in CcTaskIds : t < u /\ cc.outcome[t] = "failed" /\ cc.outcome[u] = "done"

(***************************************************************************)
(* C24  Outcome of a tool call                                              *)
(***************************************************************************)
\* the remote fetch of the call has failed
RemoteFailed == "remote" \in DOMAIN call

\* the reply is an error reply for the message msg and nothing else
ErrorReplyFor(msg) ==
  /\ result.isError
  /\ result.error = msg
  /\ result.text = <<"Error: ", msg>>
  /\ result.header = NoHeader
  /\ result.lines = <<>>
  /\ result.footer = NoFooter

\* C24: a tool call with an arguments object ends either in a content result
\* or in a reply with isError whose text is "Error: " and the message of the
\* failure; a failed remote fetch, an invalid page, a task not found and an
\* unknown tool name end in the error reply, with the message of the failure
\* and nothing of the view.
C24_Outcome ==
  call # NoCall
    => /\ result.isError => ErrorReplyFor(result.error)
       /\ ~result.isError => result.header.kind # "none"
       /\ RemoteFailed => ErrorReplyFor(call.remote)
       /\ call.tool = "no_such_tool" => ErrorReplyFor("Unknown tool: no_such_tool")
       /\ (IsPaginated /\ ~RemoteFailed
             /\ (call.args.page < 1 \/ call.args.page > TopCount))
            => ErrorReplyFor("InvalidPage")
       /\ (IsTree /\ ~RemoteFailed /\ call.args.task_id \notin RecordIds)
            => ErrorReplyFor("TaskNotFound")

\* the fetch of a page that would have been valid has failed
C24_Witness ==
  /\ IsPaginated
  /\ RemoteFailed
  /\ call.args.page >= 1 /\ call.args.page <= TopCount
  /\ result.isError
  /\ result.text = <<"Error: ", "Checkvist API error">>

(***************************************************************************)
(* The token cache                                                         *)
(***************************************************************************)
\* the token cached in a was returned by a login response less than one day
\* minus the one-hour buffer before a's clock
Fresh(a) ==
  /\ a.authToken # NoToken
  /\ a.now < a.authToken + (TokenLifetime - ExpiryBuffer)
LoginsInFlight == {i \in CallIds : auth.calls[i].pc = "login"}
ReturnsCached == auth'.done.kind = "cached" /\ auth'.done # auth.done
SendsLogin(i) == auth.calls[i].pc = "idle" /\ auth'.calls[i].pc = "login"
LoginReturns(i) ==
  /\ auth.calls[i].pc = "login"
  /\ auth'.calls[i].pc = "idle"
  /\ auth'.done.kind = "login"

\* C25 as stated: a login that succeeds sets the expiry to the time its call
\* of getAuthToken was made plus one day.
C25_Original ==
  auth.done.kind = "login" => auth.tokenExpiry = auth.done.started + TokenLifetime

\* C25: with t the time at which the last successful login response was
\* processed, a getAuthToken call made earlier than t + 23 hours returns the
\* cached token, sends no login request and leaves the cache alone; a call at
\* or after t + 23 hours, or with no token cached, sends a login request; a
\* login that succeeds replaces the cached token by the one it returns and
\* sets the expiry to the time of the response plus one day.
C25_TokenCache ==
  [][ /\ \A i \in CallIds : SendsLogin(i) => ~Fresh(auth)
      /\ ReturnsCached =>
           /\ Fresh(auth)
           /\ auth'.done.got = auth.authToken
           /\ auth'.done.started = auth.now
           /\ auth'.calls = auth.calls
           /\ auth'.authToken = auth.authToken
           /\ auth'.tokenExpiry = auth.tokenExpiry
      /\ \A i \in CallIds :
           LoginReturns(i) =>
             /\ auth'.authToken = auth.now
             /\ auth'.done.got = auth'.authToken
             /\ auth'.tokenExpiry = auth.now + TokenLifetime ]_vars

\* a call returned the cached token in the last hour before the buffer
C25_Witness ==
  /\ auth.done.kind = "cached"
  /\ auth.done.started = auth.now
  /\ auth.done.got = auth.authToken
  /\ auth.now = auth.authToken + (TokenLifetime - ExpiryBuffer) - 1
  /\ auth.tokenExpiry = auth.authToken + TokenLifetime

\* C28 as stated: at most one login request is in flight at a time.
C28_Original == Cardinality(LoginsInFlight) <= 1

(***************************************************************************)
(* Renders of a checklist whose children lists form a cycle                *)
(***************************************************************************)
\* the reply is a render
Rendered == IsRenderView /\ ~result.isError
\* some task is on more than one task line
RendersTwice ==
  \E i, j \in TaskLineIdx : i # j /\ result.lines[i].id = result.lines[j].id
\* the depth below which children are expanded
DepthLimit == IF result.header.maxDepth < 0 THEN 0 ELSE result.header.maxDepth

\* C29 as stated: for every finite max_depth no task line is rendered at a
\* depth greater than max_depth.
C29_Original ==
  Rendered => \A i \in TaskLineIdx : result.lines[i].depth <= result.header.maxDepth

\* C29: on every task set, cyclic ones included, the summary, subtree and
\* paginated views return for every integer max_depth, and no task line is
\* rendered at a depth greater than max_depth, or than 0 when max_depth is
\* negative: a task at that depth is followed by the marker, not by its
\* children.
C29_DepthBound ==
  Rendered =>
    /\ \A i \in TaskLineIdx : result.lines[i].depth <= DepthLimit
    /\ \A i \in TaskLineIdx :
         (result.lines[i].depth = DepthLimit /\ i < Len(result.lines)) =>
            \/ result.lines[i + 1].kind # "task"
            \/ result.lines[i + 1].depth <= result.lines[i].depth

\* a render that went round a cycle and stopped at max_depth
C29_Witness ==
  /\ Rendered
  /\ ~Acyclic(tasks)
  /\ RendersTwice
  /\ result.header.maxDepth >= 1
  /\ \E i \in TaskLineIdx : result.lines[i].depth = result.header.maxDepth

(***************************************************************************)
(* The subtree of a closed task                                            *)
(***************************************************************************)
\* the subtree view is asked, without include_closed, for a task that has a
\* record and is closed
ClosedRootAsked ==
  /\ IsTree
  /\ ~AsksClosed
  /\ call.args.task_id \in RecordIds
  /\ RecordOf(call.args.task_id).status = StatusClosed

\* C30: in the subtree view, when the requested task exists but is closed and
\* include_closed is false, the call succeeds and the reply is the header
\* naming the task with an empty body: neither the task nor any of its
\* descendants is rendered.
C30_ClosedRoot ==
  ClosedRootAsked =>
    /\ ~result.isError
    /\ result.header.kind = "tree"
    /\ result.header.root = call.args.task_id
    /\ result.lines = <<>>

\* the closed task asked for has an open child that has a record
C30_Witness ==
  /\ ClosedRootAsked
  /\ \E c \in ChildIds(call.args.task_id) :
       c \in RecordIds /\ RecordOf(c).status = StatusOpen
  /\ ~result.isError
  /\ result.lines = <<>>

====
